---- MODULE Spec2Model ----
(***************************************************************************)
(* The three bandit policies of src/agents.py (UCBAgent,                   *)
(* SlidingWindowUCBAgent, DiscountedUCBAgent) as one state machine.  One   *)
(* behaviour follows one policy instance from its constructor through any  *)
(* sequence of initialize / get_action / update calls.                     *)
(*                                                                         *)
(* Floating-point numbers are modelled by exact rationals <<num, den>>.    *)
(* A denominator of 0 stands for numpy's result of a division by zero      *)
(* (<<1,0>> inf, <<-1,0>> -inf, <<0,0>> nan).  Every result of float       *)
(* arithmetic is rounded as a double rounds it; a double too long for      *)
(* <<num, den>> is kept as <<sign, digits, exponent>>.                     *)
(***************************************************************************)
EXTENDS Integers, Sequences, FiniteSets, TLC

(***************************************************************************)
(* Bounds of the model.                                                    *)
(***************************************************************************)
MaxArms == 3
MaxWindow == 2
MaxFed == 6
MaxQuiet == 54
MaxTail == 2

(***************************************************************************)
(* Exact arithmetic standing for the float arithmetic of the source.       *)
(***************************************************************************)
Abs(x) == IF x < 0 THEN -x ELSE x

RECURSIVE GCD(_, _)
GCD(a, b) == IF b = 0 THEN a ELSE GCD(b, a % b)

Norm(n, d) ==
    IF d = 0 THEN <<(IF n > 0 THEN 1 ELSE IF n < 0 THEN -1 ELSE 0), 0>>
    ELSE LET s == IF d < 0 THEN -1 ELSE 1
             g == GCD(Abs(n), Abs(d))
         IN  <<(s * n) \div g, (s * d) \div g>>

Rat(n) == <<n, 1>>
Zero == Rat(0)
One == Rat(1)

RAdd(a, b) == Norm(a[1] * b[2] + b[1] * a[2], a[2] * b[2])
RSub(a, b) == Norm(a[1] * b[2] - b[1] * a[2], a[2] * b[2])
RMul(a, b) == Norm(a[1] * b[1], a[2] * b[2])
RDiv(a, b) == Norm(a[1] * b[2], a[2] * b[1])
RLe(a, b) == a[1] * b[2] <= b[1] * a[2]
RLt(a, b) == a[1] * b[2] < b[1] * a[2]
RMin(a, b) == IF RLe(a, b) THEN a ELSE b

SetMin(S) == CHOOSE x \in S : \A y \in S : x <= y

RECURSIVE RSum(_)
RSum(s) == IF s = <<>> THEN Zero ELSE RAdd(Head(s), RSum(Tail(s)))

RECURSIVE ISum(_)
ISum(s) == IF s = <<>> THEN 0 ELSE Head(s) + ISum(Tail(s))

(***************************************************************************)
(* Doubles.  A Python or numpy float is an IEEE-754 binary64: every result *)
(* of +, -, * and / is the exact result rounded to DoubleDigits            *)
(* significant binary digits, a tie going to the neighbour whose last      *)
(* digit is even.                                                          *)
(*                                                                         *)
(* A natural number of any length is its sequence of limbs: digits in base *)
(* 32768 = 2^15, lowest first and ending in a limb that is not 0 (<<>> is  *)
(* 0).  Dy(s, m, e) is s * m * 2^e with s = 1 or -1.  The operations below *)
(* are for finite values whose denominator is a power of two, which every  *)
(* double is.  Exponent overflow and underflow and the sign of zero are    *)
(* out of the model's reach and are not modelled.                          *)
(***************************************************************************)
DoubleDigits == 53

RECURSIVE Pow2(_)
Pow2(k) == IF k = 0 THEN 1 ELSE 2 * Pow2(k - 1)

RECURSIVE Log2(_)
Log2(d) == IF d <= 1 THEN 0 ELSE 1 + Log2(d \div 2)

RECURSIVE LimbsOf(_)
LimbsOf(n) == IF n = 0 THEN <<>> ELSE <<n % 32768>> \o LimbsOf(n \div 32768)

RECURSIVE IntOf(_)
IntOf(x) == IF x = <<>> THEN 0 ELSE Head(x) + 32768 * IntOf(Tail(x))

RECURSIVE Trim(_)
Trim(x) ==
    IF x = <<>> \/ x[Len(x)] # 0 THEN x ELSE Trim(SubSeq(x, 1, Len(x) - 1))

\* Number of binary digits of x, and binary digit i of x (digit 0 the lowest).
BitLen(x) == IF x = <<>> THEN 0 ELSE 15 * (Len(x) - 1) + 1 + Log2(x[Len(x)])

Bit(x, i) ==
    IF i \div 15 + 1 > Len(x) THEN 0 ELSE (x[i \div 15 + 1] \div Pow2(i % 15)) % 2

RECURSIVE NAddC(_, _, _)
NAddC(x, y, carry) ==
    IF x = <<>> /\ y = <<>>
    THEN (IF carry = 1 THEN <<1>> ELSE <<>>)
    ELSE LET a == IF x = <<>> THEN 0 ELSE Head(x)
             b == IF y = <<>> THEN 0 ELSE Head(y)
             s == a + b + carry
         IN  <<s % 32768>> \o NAddC(IF x = <<>> THEN x ELSE Tail(x),
                                    IF y = <<>> THEN y ELSE Tail(y),
                                    s \div 32768)

NAdd(x, y) == NAddC(x, y, 0)

\* x - y for x >= y.
RECURSIVE NSubC(_, _, _)
NSubC(x, y, borrow) ==
    IF x = <<>> THEN <<>>
    ELSE LET b == IF y = <<>> THEN 0 ELSE Head(y)
             d == Head(x) - b - borrow
         IN  <<d % 32768>> \o NSubC(Tail(x),
                                    IF y = <<>> THEN y ELSE Tail(y),
                                    IF d < 0 THEN 1 ELSE 0)

NSub(x, y) == Trim(NSubC(x, y, 0))

\* x * m for 0 <= m < 32768.
RECURSIVE NMulC(_, _, _)
NMulC(x, m, carry) ==
    IF x = <<>> THEN LimbsOf(carry)
    ELSE LET p == Head(x) * m + carry
         IN  <<p % 32768>> \o NMulC(Tail(x), m, p \div 32768)

NMulSmall(x, m) == IF m = 0 THEN <<>> ELSE NMulC(x, m, 0)

ShiftLimbs(x, k) ==
    IF x = <<>> \/ k = 0 THEN x ELSE [i \in 1..k |-> 0] \o x

RECURSIVE NMul(_, _)
NMul(x, y) ==
    IF x = <<>> \/ y = <<>> THEN <<>>
    ELSE NAdd(NMulSmall(y, Head(x)), ShiftLimbs(NMul(Tail(x), y), 1))

NLt(x, y) ==
    \/ Len(x) < Len(y)
    \/ /\ Len(x) = Len(y)
       /\ \E i \in 1..Len(x) :
              x[i] < y[i] /\ \A j \in (i + 1)..Len(x) : x[j] = y[j]

\* x * 2^k, the whole part of x / 2^k, and whether x / 2^k has a remainder.
Shl(x, k) == ShiftLimbs(NMulSmall(x, Pow2(k % 15)), k \div 15)

Shr(x, k) ==
    LET y == SubSeq(x, k \div 15 + 1, Len(x))
        d == Pow2(k % 15)
    IN  Trim([i \in 1..Len(y) |->
                 y[i] \div d
                 + (IF i < Len(y) THEN (y[i + 1] % d) * (32768 \div d) ELSE 0)])

LowPart(x, k) ==
    \/ \E i \in 1..(k \div 15) : i <= Len(x) /\ x[i] # 0
    \/ k \div 15 + 1 <= Len(x) /\ x[k \div 15 + 1] % Pow2(k % 15) # 0

\* Number of lowest binary digits of n > 0, and of x, that are 0.
RECURSIVE LowZerosOf(_)
LowZerosOf(n) == IF n % 2 = 1 THEN 0 ELSE 1 + LowZerosOf(n \div 2)

RECURSIVE LowZeros(_)
LowZeros(x) ==
    IF x = <<>> THEN 0
    ELSE IF Head(x) = 0 THEN 15 + LowZeros(Tail(x))
    ELSE LowZerosOf(Head(x))

\* The largest q < 32768 with y * q <= r, found from its highest binary
\* digit down, for r < y * 32768.
RECURSIVE QuotientLimb(_, _, _, _)
QuotientLimb(r, y, bit, q) ==
    IF bit < 0 THEN q
    ELSE IF NLt(r, NMulSmall(y, q + Pow2(bit)))
         THEN QuotientLimb(r, y, bit - 1, q)
         ELSE QuotientLimb(r, y, bit - 1, q + Pow2(bit))

\* <<quotient, remainder>> of x by y # 0, by long division from the highest
\* limb of x down; a divisor of one limb d is divided by directly.
RECURSIVE NDivModLong(_, _)
NDivModLong(x, y) ==
    IF x = <<>> THEN <<x, x>>
    ELSE LET qr == NDivModLong(Tail(x), y)
             r == IF qr[2] = <<>> /\ Head(x) = 0 THEN <<>> ELSE <<Head(x)>> \o qr[2]
             q == QuotientLimb(r, y, 14, 0)
         IN  <<IF qr[1] = <<>> /\ q = 0 THEN <<>> ELSE <<q>> \o qr[1],
               NSub(r, NMulSmall(y, q))>>

RECURSIVE NDivModSmall(_, _)
NDivModSmall(x, d) ==
    IF x = <<>> THEN <<x, 0>>
    ELSE LET qr == NDivModSmall(Tail(x), d)
             n == qr[2] * 32768 + Head(x)
         IN  <<IF qr[1] = <<>> /\ n < d THEN <<>> ELSE <<n \div d>> \o qr[1], n % d>>

NDivMod(x, y) ==
    IF Len(y) = 1
    THEN LET qr == NDivModSmall(x, y[1]) IN <<qr[1], LimbsOf(qr[2])>>
    ELSE NDivModLong(x, y)

Dy(s, m, e) == <<s, m, e>>

Wide(x) ==
    IF Len(x) = 3 THEN x
    ELSE Dy(IF x[1] < 0 THEN -1 ELSE 1, LimbsOf(Abs(x[1])), -Log2(x[2]))

\* Exact product, negation, sum and order of two values.
WMul(a, b) == Dy(a[1] * b[1], NMul(a[2], b[2]), a[3] + b[3])

WNeg(a) == Dy(-a[1], a[2], a[3])

WAdd(a, b) ==
    LET e == IF a[3] < b[3] THEN a[3] ELSE b[3]
        x == Shl(a[2], a[3] - e)
        y == Shl(b[2], b[3] - e)
    IN  IF a[1] = b[1] THEN Dy(a[1], NAdd(x, y), e)
        ELSE IF NLt(x, y) THEN Dy(b[1], NSub(y, x), e)
        ELSE Dy(a[1], NSub(x, y), e)

WLt(a, b) ==
    LET d == WAdd(a, WNeg(b)) IN d[2] # <<>> /\ d[1] < 0

\* The quotient a / b (b # 0) to more than DoubleDigits + 1 binary digits,
\* with one more lowest digit that is 1 when the division left a remainder:
\* rounding it rounds the exact quotient.
WDiv(a, b) ==
    LET k == DoubleDigits + 2 + BitLen(b[2]) - BitLen(a[2])
        sh == IF k > 0 THEN k ELSE 0
        qr == NDivMod(Shl(a[2], sh), b[2])
    IN  Dy(a[1] * b[1],
           IF qr[2] = <<>> THEN Shl(qr[1], 1) ELSE NAdd(Shl(qr[1], 1), <<1>>),
           a[3] - b[3] - sh - 1)

\* Round to nearest, ties to even: the binary digits below the DoubleDigits
\* highest are dropped, and the rest goes up by one when the dropped part is
\* more than half a unit of the last kept digit, or exactly half and that
\* digit is odd.
RoundDouble(w) ==
    IF BitLen(w[2]) <= DoubleDigits THEN w
    ELSE LET k == BitLen(w[2]) - DoubleDigits
             kept == Shr(w[2], k)
             half == Bit(w[2], k - 1) = 1
             more == LowPart(w[2], k - 1)
             up == half /\ (more \/ Bit(kept, 0) = 1)
         IN  Dy(w[1], IF up THEN NAdd(kept, <<1>>) ELSE kept, w[3] + k)

\* One form per value: <<num, den>> in lowest terms when both fit an integer
\* of the model, else sign, odd m and exponent.
Canon(w) ==
    LET z == LowZeros(w[2])
        m == Shr(w[2], z)
        e == w[3] + z
    IN  IF m = <<>> THEN Zero
        ELSE IF e >= 0 /\ BitLen(m) + e <= 30 THEN <<w[1] * IntOf(m) * Pow2(e), 1>>
        ELSE IF e < 0 /\ BitLen(m) <= 30 /\ -e <= 30 THEN <<w[1] * IntOf(m), Pow2(-e)>>
        ELSE Dy(w[1], m, e)

\* A value whose numerator and denominator have at most 14 digits: the exact
\* product, sum or difference of two of them has fewer than DoubleDigits
\* digits, so it is a double and nothing is rounded.
Short(x) == Len(x) = 2 /\ Abs(x[1]) < 16384 /\ x[2] < 16384

\* a * b, a + b, a - b and a / b of two doubles, as a double.  A division by
\* zero gives numpy's inf or nan; a quotient of two short values whose
\* denominator is a power of two is exact.
FMul(a, b) ==
    IF Short(a) /\ Short(b) THEN RMul(a, b)
    ELSE Canon(RoundDouble(WMul(Wide(a), Wide(b))))

FAdd(a, b) ==
    IF Short(a) /\ Short(b) THEN RAdd(a, b)
    ELSE Canon(RoundDouble(WAdd(Wide(a), Wide(b))))

FSub(a, b) ==
    IF Short(a) /\ Short(b) THEN RSub(a, b)
    ELSE Canon(RoundDouble(WAdd(Wide(a), WNeg(Wide(b)))))

FDiv(a, b) ==
    IF b = Zero THEN RDiv(a, b)
    ELSE IF Short(a) /\ Short(b)
         THEN LET q == RDiv(a, b)
              IN  IF Pow2(Log2(q[2])) = q[2] THEN q
                  ELSE Canon(RoundDouble(WDiv(Wide(a), Wide(b))))
    ELSE Canon(RoundDouble(WDiv(Wide(a), Wide(b))))

(***************************************************************************)
(* np.zeros(n) for the two element types the model distinguishes.          *)
(***************************************************************************)
ZerosI(n) == [i \in 1..n |-> 0]
ZerosR(n) == [i \in 1..n |-> Zero]

(***************************************************************************)
(* Inputs.  A reward is a float; a negative value is the environment's     *)
(* "not observed" sentinel (-1).                                           *)
(***************************************************************************)
Kinds == {"UCBAgent", "SlidingWindowUCBAgent", "DiscountedUCBAgent"}
Rewards == {Rat(-1), Rat(0), Rat(1)}
Half == <<1, 2>>
Quarter == <<1, 4>>
Gammas == {Half, One}
LongGammas == {Half, Quarter}
BadGammas == {Zero, Rat(2)}
States(n) == [1..n -> Rewards]
OneHot(n, idx) == [i \in 1..n |-> IF i = idx THEN 1 ELSE 0]
ActionArgs(n) == {OneHot(n, idx) : idx \in 0..1}

VARIABLES
    kind,                \* class of the instance
    c,                   \* self.c
    window_size,         \* self.window_size (SlidingWindowUCBAgent)
    gamma,               \* self.gamma (DiscountedUCBAgent)
    initialized,         \* self.counts is not None
    counts,              \* self.counts
    values,              \* self.values
    recent_rewards,      \* self.recent_rewards: one deque per arm
    recent_counts,       \* self.recent_counts: one deque per arm
    recent_rewards_sum,  \* self.recent_rewards_sum
    recent_counts_sum,   \* self.recent_counts_sum
    discounted_counts,   \* self.discounted_counts
    discounted_rewards,  \* self.discounted_rewards
    total_time_steps,    \* self.total_time_steps
    call,                \* the most recent call on the instance and its outcome
    hist                 \* history of the calls, for stating properties only

hyper == <<kind, c, window_size, gamma>>
arrays == <<counts, values, recent_rewards, recent_counts, recent_rewards_sum,
            recent_counts_sum, discounted_counts, discounted_rewards>>
agent == <<hyper, initialized, arrays, total_time_steps>>
vars == <<agent, call, hist>>

n_arms == Len(counts)
Arms == 1..n_arms


(***************************************************************************)
(* The record of the most recent call: which method, the exception it      *)
(* raised ("none" when it returned), and for get_action the branch taken   *)
(* and the operands of the returned vector.  The confidence-bound scores   *)
(* themselves (sqrt, log) are not computed: the record keeps the mean      *)
(* term, the divisors and the argument of np.log.                          *)
(***************************************************************************)
CallOf(op, raised) ==
    [op |-> op, raised |-> raised, branch |-> "none", action |-> <<>>,
     means |-> <<>>, divisors |-> <<>>, logarg |-> Zero]

ColdResult(n, idx) ==
    [CallOf("get_action", "none") EXCEPT !.branch = "cold", !.action = OneHot(n, idx)]

BoundResult(means, divisors, logarg) ==
    [CallOf("get_action", "none") EXCEPT
        !.branch = "ucb", !.means = means, !.divisors = divisors, !.logarg = logarg]

(***************************************************************************)
(* `reward >= 0`: the test every update applies to an element of `state`.  *)
(***************************************************************************)
IsValid_sentinel(reward) == RLe(Rat(-1), reward)

IsValid(reward) == RLe(Zero, reward)

(***************************************************************************)
(* np.where(self.counts == 0)[0] and self.counts.min().                    *)
(***************************************************************************)
ColdArms_any(cnts) == DOMAIN cnts

ColdArms(cnts) == {i \in DOMAIN cnts : cnts[i] = 0}

CountsMin_max(cnts) == -SetMin({-cnts[i] : i \in DOMAIN cnts})

CountsMin(cnts) == SetMin({cnts[i] : i \in DOMAIN cnts})

(***************************************************************************)
(* History variable.  Observed(r) is the environment's convention that a   *)
(* negative entry means "not observed".                                    *)
(*   updateCalls  update() calls since construction                        *)
(*   fed          reward entries passed to update() since construction     *)
(*   updatesDone  update() calls that returned, since construction         *)
(*   seen[i]      arm i got an observed reward since the last initialize   *)
(*   log          the reward vectors of the update() calls that returned   *)
(*                since the last initialize, oldest first                  *)
(*   loop         position in the driver loop get_action -> update that    *)
(*                started at the last initialize ("off" once a call came   *)
(*                out of turn or raised)                                   *)
(*   picks        per get_action of the loop: the arm of the one-hot, or 0 *)
(*                when the confidence bound was computed                   *)
(*   allValid     every update of the loop carried no missing reward       *)
(*   selOnly      every update of the loop carried an observed reward for  *)
(*                exactly the arm picked in its round                      *)
(***************************************************************************)
Observed(r) == r[1] >= 0

HistInit ==
    [updateCalls |-> 0, fed |-> 0, updatesDone |-> 0, seen |-> <<>>, log |-> <<>>,
     loop |-> "off", picks |-> <<>>, allValid |-> FALSE, selOnly |-> FALSE]

LoopOff(h) == [h EXCEPT !.loop = "off", !.picks = <<>>, !.allValid = FALSE, !.selOnly = FALSE]

HistAfterInitialize(n) ==
    [hist EXCEPT !.seen = [i \in 1..n |-> FALSE], !.log = <<>>, !.loop = "select",
                 !.picks = <<>>, !.allValid = TRUE, !.selOnly = TRUE]

PickOf(res) ==
    IF res.branch = "cold"
    THEN CHOOSE i \in DOMAIN res.action : res.action[i] = 1
    ELSE 0

HistAfterGetAction(res) ==
    IF hist.loop = "select" /\ res.raised = "none"
    THEN [hist EXCEPT !.loop = "update", !.picks = Append(@, PickOf(res))]
    ELSE LoopOff(hist)

HistAfterUpdate(state, raised) ==
    LET h1 == [hist EXCEPT
                 !.updateCalls = @ + 1,
                 !.fed = @ + Len(state),
                 !.updatesDone = IF raised = "none" THEN @ + 1 ELSE @,
                 !.seen = [i \in DOMAIN @ |->
                              @[i] \/ (i \in DOMAIN state /\ Observed(state[i]))],
                 !.log = IF initialized /\ raised = "none" THEN Append(@, state) ELSE @]
        p == h1.picks[Len(h1.picks)]
    IN  IF hist.loop = "update" /\ raised = "none"
        THEN [h1 EXCEPT
                !.loop = "select",
                !.allValid = @ /\ \A i \in DOMAIN state : Observed(state[i]),
                !.selOnly = @ /\ \A i \in DOMAIN state : Observed(state[i]) <=> (i = p)]
        ELSE LoopOff(h1)

\* The driver stops feeding rewards after MaxFed entries (and MaxFed calls).
WithinBounds(state) ==
    /\ hist.fed + Len(state) <= MaxFed
    /\ hist.updateCalls < MaxFed

\* A long run of a driver that initializes first: no reward is observed in
\* its first MaxQuiet update() calls, any reward in the MaxTail calls after.
LongRun(state) ==
    /\ initialized
    /\ hist.updateCalls < MaxQuiet + MaxTail
    /\ hist.updateCalls < MaxQuiet => \A i \in DOMAIN state : ~Observed(state[i])

(***************************************************************************)
(* Constructors: the state after __init__.  c is 3 in all three classes.   *)
(***************************************************************************)
C_UCB == 3

Constructed ==
    /\ c = C_UCB
    /\ initialized = FALSE
    /\ counts = <<>>
    /\ values = <<>>
    /\ recent_rewards = <<>>
    /\ recent_counts = <<>>
    /\ recent_rewards_sum = <<>>
    /\ recent_counts_sum = <<>>
    /\ discounted_counts = <<>>
    /\ discounted_rewards = <<>>
    /\ total_time_steps = Zero
    /\ call = CallOf("__init__", "none")
    /\ hist = HistInit

UCBAgent_init ==
    /\ kind = "UCBAgent"
    /\ window_size = 0
    /\ gamma = Zero
    /\ Constructed

SlidingWindowUCBAgent_init(w) ==
    /\ kind = "SlidingWindowUCBAgent"
    /\ window_size = w
    /\ gamma = Zero
    /\ Constructed

DiscountedUCBAgent_init(g) ==
    /\ kind = "DiscountedUCBAgent"
    /\ window_size = 0
    /\ gamma = g
    /\ Constructed

Init ==
    \/ UCBAgent_init
    \/ \E w \in 1..MaxWindow : SlidingWindowUCBAgent_init(w)
    \/ \E g \in Gammas : DiscountedUCBAgent_init(g)

(***************************************************************************)
(* self.total_time_steps += 1, the first statement of update(actions,      *)
(* state) in UCBAgent and SlidingWindowUCBAgent; it reads neither argument.*)
(***************************************************************************)
TimeStepAfter_perValid(t, state) ==
    RAdd(t, Rat(Cardinality({i \in DOMAIN state : RLe(Zero, state[i])})))

TimeStepAfter_lost(t, state) == t

TimeStepAfter(t, state) == RAdd(t, One)

(***************************************************************************)
(* UCBAgent                                                                *)
(***************************************************************************)
UCBAgent_initialize(n_actions) ==
    /\ kind = "UCBAgent"
    /\ counts' = ZerosI(n_actions)
    /\ values' = ZerosR(n_actions)
    /\ initialized' = TRUE
    /\ call' = CallOf("initialize", "none")
    /\ hist' = HistAfterInitialize(n_actions)
    /\ UNCHANGED <<hyper, recent_rewards, recent_counts, recent_rewards_sum,
                   recent_counts_sum, discounted_counts, discounted_rewards,
                   total_time_steps>>

UCBAgent_scores ==
    BoundResult(values, [i \in Arms |-> Rat(counts[i])], total_time_steps)

UCBAgent_get_action ==
    /\ kind = "UCBAgent"
    /\ IF ~initialized THEN call' = CallOf("get_action", "AttributeError")
       ELSE IF n_arms = 0 THEN call' = CallOf("get_action", "ValueError")
       ELSE IF CountsMin(counts) = 0
            THEN \E idx \in ColdArms(counts) : call' = ColdResult(n_arms, idx)
            ELSE call' = UCBAgent_scores
    /\ hist' = HistAfterGetAction(call')
    /\ UNCHANGED agent

UCBAgent_mean_off(value, count, reward) ==
    FAdd(value, FMul(FDiv(One, Rat(count + 1)), FSub(reward, value)))

UCBAgent_mean(value, count, reward) ==
    FAdd(value, FMul(FDiv(One, Rat(count)), FSub(reward, value)))

UCBAgent_update(actions, state) ==
    /\ kind = "UCBAgent"
    /\ total_time_steps' = TimeStepAfter(total_time_steps, state)
    /\ IF ~initialized
       THEN /\ call' = CallOf("update", IF Len(state) = 0 THEN "none" ELSE "TypeError")
            /\ UNCHANGED <<counts, values>>
       ELSE /\ counts' = [i \in Arms |->
                            IF IsValid(state[i]) THEN counts[i] + 1 ELSE counts[i] + 0]
            /\ values' = [i \in Arms |->
                            IF IsValid(state[i])
                            THEN UCBAgent_mean(values[i], counts'[i], state[i])
                            ELSE values[i]]
            /\ call' = CallOf("update", "none")
    /\ hist' = HistAfterUpdate(state, call'.raised)
    /\ UNCHANGED <<hyper, initialized, recent_rewards, recent_counts, recent_rewards_sum,
                   recent_counts_sum, discounted_counts, discounted_rewards>>

(***************************************************************************)
(* SlidingWindowUCBAgent                                                   *)
(***************************************************************************)
\* collections.deque(maxlen=maxlen).append(x)
DequeAppend(d, x, maxlen) ==
    IF maxlen = 0 THEN d
    ELSE IF Len(d) = maxlen THEN Append(Tail(d), x)
    ELSE Append(d, x)

SlidingWindowUCBAgent_initialize(n_actions) ==
    /\ kind = "SlidingWindowUCBAgent"
    /\ counts' = ZerosI(n_actions)
    /\ values' = ZerosR(n_actions)
    /\ recent_rewards' = [i \in 1..n_actions |-> <<>>]
    /\ recent_counts' = [i \in 1..n_actions |-> <<>>]
    /\ recent_rewards_sum' = ZerosR(n_actions)
    /\ recent_counts_sum' = ZerosI(n_actions)
    /\ initialized' = TRUE
    /\ call' = CallOf("initialize", "none")
    /\ hist' = HistAfterInitialize(n_actions)
    /\ UNCHANGED <<hyper, discounted_counts, discounted_rewards, total_time_steps>>

SlidingWindowUCBAgent_scores ==
    BoundResult([i \in Arms |-> FDiv(recent_rewards_sum[i], Rat(recent_counts_sum[i]))],
                [i \in Arms |-> Rat(recent_counts_sum[i])],
                RMin(total_time_steps, Rat(window_size)))

SlidingWindowUCBAgent_get_action ==
    /\ kind = "SlidingWindowUCBAgent"
    /\ IF ~initialized THEN call' = CallOf("get_action", "AttributeError")
       ELSE IF n_arms = 0 THEN call' = CallOf("get_action", "ValueError")
       ELSE IF CountsMin(counts) = 0
            THEN \E idx \in ColdArms(counts) : call' = ColdResult(n_arms, idx)
            ELSE call' = SlidingWindowUCBAgent_scores
    /\ hist' = HistAfterGetAction(call')
    /\ UNCHANGED agent

(***************************************************************************)
(* One iteration of the loop of SlidingWindowUCBAgent.update, on the       *)
(* fields of one arm: a record of the arm's fields after the iteration,    *)
(* and whether the iteration raised (self.recent_rewards[i][0] on an empty *)
(* deque raises IndexError, after counts[i] was incremented).              *)
(***************************************************************************)
SW_arm(i) ==
    [cnt |-> counts[i], rr |-> recent_rewards[i], rc |-> recent_counts[i],
     rsum |-> recent_rewards_sum[i], csum |-> recent_counts_sum[i], raised |-> FALSE]

SW_valid_noevict(a, reward, w) ==
    [cnt |-> a.cnt + 1,
     rr |-> DequeAppend(a.rr, reward, w),
     rc |-> DequeAppend(a.rc, 1, w),
     rsum |-> FAdd(a.rsum, reward),
     csum |-> a.csum + 1,
     raised |-> FALSE]

SW_valid(a, reward, w) ==
    LET full == Len(a.rr) = w
    IN  IF full /\ Len(a.rr) = 0
        THEN [a EXCEPT !.cnt = @ + 1, !.raised = TRUE]
        ELSE [cnt |-> a.cnt + 1,
              rr |-> DequeAppend(a.rr, reward, w),
              rc |-> DequeAppend(a.rc, 1, w),
              rsum |-> FAdd(IF full THEN FSub(a.rsum, a.rr[1]) ELSE a.rsum, reward),
              csum |-> (IF full THEN a.csum - a.rc[1] ELSE a.csum) + 1,
              raised |-> FALSE]

SW_missing_evicting(a, w) ==
    LET full == Len(a.rr) = w /\ w > 0
    IN  [a EXCEPT !.cnt = @ + 0,
                  !.rr = DequeAppend(@, Zero, w),
                  !.rc = DequeAppend(@, 0, w),
                  !.rsum = IF full THEN FSub(@, a.rr[1]) ELSE @,
                  !.csum = IF full THEN @ - a.rc[1] ELSE @]

SW_missing(a, w) ==
    [a EXCEPT !.cnt = @ + 0,
              !.rr = DequeAppend(@, Zero, w),
              !.rc = DequeAppend(@, 0, w)]

SW_step(a, reward, w) ==
    IF IsValid(reward) THEN SW_valid(a, reward, w) ELSE SW_missing(a, w)

SlidingWindowUCBAgent_update(actions, state) ==
    /\ kind = "SlidingWindowUCBAgent"
    /\ total_time_steps' = TimeStepAfter(total_time_steps, state)
    /\ IF ~initialized
       THEN /\ call' = CallOf("update", IF Len(state) = 0 THEN "none" ELSE "TypeError")
            /\ UNCHANGED <<counts, recent_rewards, recent_counts,
                           recent_rewards_sum, recent_counts_sum>>
       ELSE LET after == [i \in Arms |-> SW_step(SW_arm(i), state[i], window_size)]
                failing == {i \in Arms : after[i].raised}
                \* the loop stops at the first iteration that raises
                stop == IF failing = {} THEN n_arms + 1 ELSE SetMin(failing)
                new(i) == IF i <= stop THEN after[i] ELSE SW_arm(i)
            IN  /\ counts' = [i \in Arms |-> new(i).cnt]
                /\ recent_rewards' = [i \in Arms |-> new(i).rr]
                /\ recent_counts' = [i \in Arms |-> new(i).rc]
                /\ recent_rewards_sum' = [i \in Arms |-> new(i).rsum]
                /\ recent_counts_sum' = [i \in Arms |-> new(i).csum]
                /\ call' = CallOf("update", IF failing = {} THEN "none" ELSE "IndexError")
    /\ hist' = HistAfterUpdate(state, call'.raised)
    /\ UNCHANGED <<hyper, initialized, values, discounted_counts, discounted_rewards>>

(***************************************************************************)
(* DiscountedUCBAgent                                                      *)
(***************************************************************************)
DiscountedUCBAgent_initialize(n_actions) ==
    /\ kind = "DiscountedUCBAgent"
    /\ counts' = ZerosI(n_actions)
    /\ discounted_counts' = ZerosR(n_actions)
    /\ values' = ZerosR(n_actions)
    /\ discounted_rewards' = ZerosR(n_actions)
    /\ initialized' = TRUE
    /\ call' = CallOf("initialize", "none")
    /\ hist' = HistAfterInitialize(n_actions)
    /\ UNCHANGED <<hyper, recent_rewards, recent_counts, recent_rewards_sum,
                   recent_counts_sum, total_time_steps>>

DiscountedUCBAgent_scores ==
    BoundResult([i \in Arms |-> FDiv(discounted_rewards[i], discounted_counts[i])],
                discounted_counts,
                total_time_steps)

DiscountedUCBAgent_get_action_counting ==
    /\ kind = "DiscountedUCBAgent"
    /\ IF ~initialized
       THEN call' = CallOf("get_action", "AttributeError") /\ UNCHANGED counts
       ELSE IF n_arms = 0
       THEN call' = CallOf("get_action", "ValueError") /\ UNCHANGED counts
       ELSE IF CountsMin(counts) = 0
            THEN \E idx \in ColdArms(counts) :
                    /\ call' = ColdResult(n_arms, idx)
                    /\ counts' = [counts EXCEPT ![idx] = @ + 1]
            ELSE call' = DiscountedUCBAgent_scores /\ UNCHANGED counts
    /\ hist' = HistAfterGetAction(call')
    /\ UNCHANGED <<hyper, initialized, values, recent_rewards, recent_counts,
                   recent_rewards_sum, recent_counts_sum, discounted_counts,
                   discounted_rewards, total_time_steps>>

DiscountedUCBAgent_get_action ==
    /\ kind = "DiscountedUCBAgent"
    /\ IF ~initialized THEN call' = CallOf("get_action", "AttributeError")
       ELSE IF n_arms = 0 THEN call' = CallOf("get_action", "ValueError")
       ELSE IF CountsMin(counts) = 0
            THEN \E idx \in ColdArms(counts) : call' = ColdResult(n_arms, idx)
            ELSE call' = DiscountedUCBAgent_scores
    /\ hist' = HistAfterGetAction(call')
    /\ UNCHANGED agent

Decay_none(x) == x

Decay(x) == FMul(x, gamma)

\* self.total_time_steps = self.gamma*self.total_time_steps + 1
DiscountedTimeStep_undecayed(t) == FAdd(t, One)

DiscountedTimeStep_noTick(t) == FMul(gamma, t)

DiscountedTimeStep(t) == FAdd(FMul(gamma, t), One)

DiscountedUCBAgent_update_chosen(actions, state) ==
    /\ kind = "DiscountedUCBAgent"
    /\ total_time_steps' = DiscountedTimeStep(total_time_steps)
    /\ IF ~initialized
       THEN /\ call' = CallOf("update", "TypeError")
            /\ UNCHANGED <<counts, values, discounted_counts, discounted_rewards>>
       ELSE LET hit(i) == IsValid(state[i]) /\ actions[i] = 1
            IN  /\ counts' = [i \in Arms |-> IF hit(i) THEN counts[i] + 1 ELSE counts[i]]
                /\ values' = [i \in Arms |->
                                IF hit(i) THEN FAdd(values[i], state[i]) ELSE values[i]]
                /\ discounted_counts' = [i \in Arms |->
                                IF hit(i)
                                THEN FAdd(Decay(discounted_counts[i]), One)
                                ELSE Decay(discounted_counts[i])]
                /\ discounted_rewards' = [i \in Arms |->
                                IF hit(i)
                                THEN FAdd(Decay(discounted_rewards[i]), state[i])
                                ELSE Decay(discounted_rewards[i])]
                /\ call' = CallOf("update", "none")
    /\ hist' = HistAfterUpdate(state, call'.raised)
    /\ UNCHANGED <<hyper, initialized, recent_rewards, recent_counts,
                   recent_rewards_sum, recent_counts_sum>>

DiscountedUCBAgent_update(actions, state) ==
    /\ kind = "DiscountedUCBAgent"
    /\ total_time_steps' = DiscountedTimeStep(total_time_steps)
    /\ IF ~initialized
       THEN /\ call' = CallOf("update", "TypeError")
            /\ UNCHANGED <<counts, values, discounted_counts, discounted_rewards>>
       ELSE /\ counts' = [i \in Arms |->
                            IF IsValid(state[i]) THEN counts[i] + 1 ELSE counts[i] + 0]
            /\ values' = [i \in Arms |->
                            IF IsValid(state[i]) THEN FAdd(values[i], state[i]) ELSE values[i]]
            /\ discounted_counts' = [i \in Arms |->
                            IF IsValid(state[i])
                            THEN FAdd(Decay(discounted_counts[i]), One)
                            ELSE Decay(discounted_counts[i])]
            /\ discounted_rewards' = [i \in Arms |->
                            IF IsValid(state[i])
                            THEN FAdd(Decay(discounted_rewards[i]), state[i])
                            ELSE Decay(discounted_rewards[i])]
            /\ call' = CallOf("update", "none")
    /\ hist' = HistAfterUpdate(state, call'.raised)
    /\ UNCHANGED <<hyper, initialized, recent_rewards, recent_counts,
                   recent_rewards_sum, recent_counts_sum>>

(***************************************************************************)
(* The calls a driver can make.  Before initialize there is no arm count;  *)
(* update is then tried with a reward vector of length 1.                  *)
(***************************************************************************)
UpdateInputs ==
    IF initialized THEN States(n_arms) ELSE States(1)

Next ==
    \/ \E n \in 1..MaxArms : UCBAgent_initialize(n)
    \/ UCBAgent_get_action
    \/ \E state \in UpdateInputs : \E actions \in ActionArgs(Len(state)) :
          WithinBounds(state) /\ UCBAgent_update(actions, state)
    \/ \E n \in 1..MaxArms : SlidingWindowUCBAgent_initialize(n)
    \/ SlidingWindowUCBAgent_get_action
    \/ \E state \in UpdateInputs : \E actions \in ActionArgs(Len(state)) :
          WithinBounds(state) /\ SlidingWindowUCBAgent_update(actions, state)
    \/ \E n \in 1..MaxArms : DiscountedUCBAgent_initialize(n)
    \/ DiscountedUCBAgent_get_action
    \/ \E state \in UpdateInputs : \E actions \in ActionArgs(Len(state)) :
          WithinBounds(state) /\ DiscountedUCBAgent_update(actions, state)

Spec == Init /\ [][Next]_vars

(***************************************************************************)
(* The same calls on instances whose configuration the specification calls *)
(* invalid: window size 0, gamma outside (0, 1], and initialize(0).        *)
(***************************************************************************)
InitAny ==
    \/ UCBAgent_init
    \/ SlidingWindowUCBAgent_init(0)
    \/ \E g \in BadGammas : DiscountedUCBAgent_init(g)

NextAny ==
    \/ \E n \in 0..MaxArms : UCBAgent_initialize(n)
    \/ UCBAgent_get_action
    \/ \E state \in UpdateInputs : \E actions \in ActionArgs(Len(state)) :
          WithinBounds(state) /\ UCBAgent_update(actions, state)
    \/ \E n \in 0..MaxArms : SlidingWindowUCBAgent_initialize(n)
    \/ SlidingWindowUCBAgent_get_action
    \/ \E state \in UpdateInputs : \E actions \in ActionArgs(Len(state)) :
          WithinBounds(state) /\ SlidingWindowUCBAgent_update(actions, state)
    \/ \E n \in 0..MaxArms : DiscountedUCBAgent_initialize(n)
    \/ DiscountedUCBAgent_get_action
    \/ \E state \in UpdateInputs : \E actions \in ActionArgs(Len(state)) :
          WithinBounds(state) /\ DiscountedUCBAgent_update(actions, state)

SpecAny == InitAny /\ [][NextAny]_vars

(***************************************************************************)
(* A long run of one Discounted policy with a single arm, long enough for  *)
(* total_time_steps to use up the digits of a double.                      *)
(***************************************************************************)
InitLong == \E g \in LongGammas : DiscountedUCBAgent_init(g)

NextLong ==
    \/ ~initialized /\ DiscountedUCBAgent_initialize(1)
    \/ DiscountedUCBAgent_get_action
    \/ \E state \in UpdateInputs : \E actions \in ActionArgs(Len(state)) :
          LongRun(state) /\ DiscountedUCBAgent_update(actions, state)

SpecLong == InitLong /\ [][NextLong]_vars

(***************************************************************************)
(* Properties                                                              *)
(***************************************************************************)
IsSW == kind = "SlidingWindowUCBAgent"
IsDUCB == kind = "DiscountedUCBAgent"
IsUCB == kind = "UCBAgent"
Returned(op) == call.op = op /\ call.raised = "none"
IsOneHotOn(v, S) ==
    \E i \in DOMAIN v : i \in S /\ v[i] = 1 /\ \A j \in DOMAIN v \ {i} : v[j] = 0

\* C1: in the Sliding-Window policy the two rolling sums of every arm equal
\* the sums of the current contents of the arm's reward deque and validity
\* deque, after any mix of valid and missing rewards.
C1_RollingSumsExact ==
    (IsSW /\ initialized) =>
        \A i \in Arms :
            /\ recent_rewards_sum[i] = RSum(recent_rewards[i])
            /\ recent_counts_sum[i] = ISum(recent_counts[i])

\* C2: whenever some arm has lifetime count 0, a get_action() that returned
\* took the cold-start branch: its result is a one-hot vector over the arms
\* whose 1 is on an arm with count 0, and no term of the confidence-bound
\* formula was evaluated.
C2_ColdStartOneHot ==
    (Returned("get_action") /\ \E i \in Arms : counts[i] = 0) =>
        /\ call.branch = "cold"
        /\ Len(call.action) = n_arms
        /\ IsOneHotOn(call.action, {i \in Arms : counts[i] = 0})
        /\ call.means = <<>>
        /\ call.divisors = <<>>

C2_Witness ==
    /\ Returned("get_action")
    /\ call.branch = "cold"
    /\ n_arms >= 2
    /\ \E i \in Arms : counts[i] = 0
    /\ \E j \in Arms : counts[j] >= 2

\* C3: right after initialize() on a policy that has processed at least one
\* update(), every per-arm quantity is zero, the deques are empty and
\* total_time_steps is 0.
C3_InitializeResets ==
    (Returned("initialize") /\ hist.updatesDone >= 1) =>
        /\ total_time_steps = Zero
        /\ \A i \in Arms :
              /\ counts[i] = 0
              /\ values[i] = Zero
              /\ IsSW => /\ recent_rewards[i] = <<>>
                         /\ recent_counts[i] = <<>>
                         /\ recent_rewards_sum[i] = Zero
                         /\ recent_counts_sum[i] = 0
              /\ IsDUCB => /\ discounted_counts[i] = Zero
                           /\ discounted_rewards[i] = Zero

\* C4: in UCB1 and Sliding-Window UCB total_time_steps equals the number of
\* update() calls made on the instance, so every call adds exactly 1 to it
\* whether all, some or none of the arms carried a valid reward.
C4_StepCounter ==
    (IsUCB \/ IsSW) => total_time_steps = Rat(hist.updateCalls)

C4_Witness ==
    /\ IsUCB \/ IsSW
    /\ Returned("update")
    /\ hist.updateCalls >= 3
    /\ \E i \in Arms : counts[i] = 0
    /\ \E j \in Arms : counts[j] \in 1..(hist.updateCalls - 1)

\* C5: a get_action() call changes no field of the policy: counts, values,
\* the deques and their rolling sums, the discounted counts and rewards,
\* total_time_steps, c, gamma and window_size all keep their values.
C5_SelectPure == [][call'.op = "get_action" => UNCHANGED agent]_vars

C5_Witness ==
    /\ Returned("get_action")
    /\ call.branch = "ucb"
    /\ IsDUCB
    /\ hist.updatesDone >= 2

\* C6: an arm that received only missing rewards since initialize still has
\* lifetime count 0, value 0, rolling sums 0 (windowed) and discounted count
\* and reward 0 (discounted), and get_action() keeps taking the cold-start
\* branch.
C6_MissingSkip ==
    initialized =>
        \A i \in Arms :
            ~hist.seen[i] =>
                /\ counts[i] = 0
                /\ values[i] = Zero
                /\ IsSW => recent_rewards_sum[i] = Zero /\ recent_counts_sum[i] = 0
                /\ IsDUCB => discounted_counts[i] = Zero /\ discounted_rewards[i] = Zero
                /\ Returned("get_action") => call.branch = "cold"

C6_Witness ==
    /\ initialized
    /\ Returned("get_action")
    /\ hist.updatesDone >= 2
    /\ \E i \in Arms : ~hist.seen[i]
    /\ \E j \in Arms : hist.seen[j] /\ counts[j] >= 2

\* C7: in the Sliding-Window policy, when an arm's validity deque is full and
\* holds no valid observation although the arm's lifetime count is positive,
\* get_action() returns a one-hot vector that forces exploration of such an
\* arm (or of an arm never observed) instead of confidence-bound scores.
DegenerateArms ==
    {i \in Arms : /\ counts[i] > 0
                  /\ Len(recent_counts[i]) = window_size
                  /\ ISum(recent_counts[i]) = 0}

C7_DegenerateWindowColdStart ==
    (IsSW /\ Returned("get_action") /\ DegenerateArms # {}) =>
        /\ call.branch = "cold"
        /\ IsOneHotOn(call.action, DegenerateArms \cup {i \in Arms : counts[i] = 0})

\* C8: before initialize, get_action() and update() fail and leave the policy
\* as constructed; in particular total_time_steps is still 0 after a failed
\* update().
C8_NotInitializedNoEffect ==
    (~initialized /\ call.op \in {"get_action", "update"}) =>
        /\ call.raised # "none"
        /\ total_time_steps = Zero

\* C9: a policy with window size <= 0, gamma outside (0, 1] or n_arms <= 0
\* never gets to run get_action() or update(): no such call returns.
InvalidConfig ==
    \/ IsSW /\ window_size <= 0
    \/ IsDUCB /\ ~(RLt(Zero, gamma) /\ RLe(gamma, One))
    \/ initialized /\ n_arms <= 0

C9_InvalidConfigRejected ==
    InvalidConfig => ~(Returned("get_action") \/ Returned("update"))

\* C10 as stated: in a driver loop get_action -> update started at initialize
\* and fed reward vectors without any missing entry, each of the first n_arms
\* get_action() calls returns a cold-start one-hot, and they pick pairwise
\* different arms.
PicksColdAndDistinct ==
    /\ \A k \in DOMAIN hist.picks : hist.picks[k] # 0
    /\ \A k, l \in DOMAIN hist.picks : hist.picks[k] = hist.picks[l] => k = l

C10_ColdStartAllValid ==
    (initialized /\ hist.loop # "off" /\ hist.allValid /\ Len(hist.picks) <= n_arms) =>
        PicksColdAndDistinct

\* C10 amended: in a driver loop get_action -> update started at initialize
\* in which every update carries a valid reward for exactly the arm its
\* round's get_action picked, each of the first n_arms get_action() calls
\* returns a cold-start one-hot, they pick pairwise different arms, and after
\* n_arms rounds every arm has been picked once.
C10_ColdStartPriority ==
    (initialized /\ hist.loop # "off" /\ hist.selOnly /\ Len(hist.picks) <= n_arms) =>
        /\ PicksColdAndDistinct
        /\ Len(hist.picks) = n_arms => {hist.picks[k] : k \in DOMAIN hist.picks} = Arms

C10_Witness ==
    /\ initialized
    /\ n_arms >= 2
    /\ hist.loop = "select"
    /\ hist.selOnly
    /\ Len(hist.picks) = n_arms
    /\ \A i \in Arms : counts[i] = 1

(***************************************************************************)
(* The rewards arm i was given since the last initialize, read off the log.*)
(***************************************************************************)
FedTo(i) == [k \in 1..Len(hist.log) |-> hist.log[k][i]]
ValidOf(rs) == SelectSeq(rs, Observed)
LastN(rs, n) == SubSeq(rs, Len(rs) - n + 1, Len(rs))
LastVector == hist.log[Len(hist.log)]
UpdateCall(actions, state) ==
    \/ UCBAgent_update(actions, state)
    \/ SlidingWindowUCBAgent_update(actions, state)
    \/ DiscountedUCBAgent_update(actions, state)

\* The exact value of value * count - sum, and |d| <= count * 1e-9.
MeanError(i) ==
    WAdd(WMul(Wide(values[i]), Wide(Rat(counts[i]))),
         WNeg(Wide(RSum(ValidOf(FedTo(i))))))
WithinTolerance(d, count) ==
    ~WLt(Wide(Rat(count)), WMul(Dy(1, d[2], d[3]), Wide(Rat(1000000000))))

DecayScenario ==
    (/\ gamma = Half
     /\ Len(hist.log) = 2
     /\ hist.log[1][1] = One
     /\ \A i \in Arms : ~Observed(hist.log[2][i]))
    => (discounted_rewards[1] = Half /\ discounted_counts[1] = Half)

C12_DiscountDecay ==
    [][(IsDUCB /\ initialized /\ call'.op = "update") =>
          /\ \A i \in Arms :
                LET r == LastVector'[i]
                IN  IF Observed(r)
                    THEN /\ discounted_counts'[i] =
                                RAdd(RMul(gamma, discounted_counts[i]), One)
                         /\ discounted_rewards'[i] =
                                RAdd(RMul(gamma, discounted_rewards[i]), r)
                    ELSE /\ discounted_counts'[i] = RMul(gamma, discounted_counts[i])
                         /\ discounted_rewards'[i] = RMul(gamma, discounted_rewards[i])
          /\ DecayScenario']_vars

C12_Witness ==
    /\ IsDUCB
    /\ gamma = Half
    /\ Len(hist.log) = 2
    /\ hist.log[1][1] = One
    /\ \A i \in Arms : ~Observed(hist.log[2][i])
    /\ discounted_rewards[1] = Half
    /\ discounted_counts[1] = Half

\* C13: an arm of the Sliding-Window policy that was given only valid
\* rewards since initialize, at least W + 1 of them, has reward_sum equal to
\* the sum of the most recent W of them and valid_sum equal to W.
C13_WindowedBound ==
    (IsSW /\ initialized) =>
        \A i \in Arms :
            (/\ Len(hist.log) >= window_size + 1
             /\ \A k \in 1..Len(hist.log) : Observed(FedTo(i)[k]))
            => /\ recent_rewards_sum[i] = RSum(LastN(FedTo(i), window_size))
               /\ recent_counts_sum[i] = window_size

C13_Witness ==
    /\ IsSW
    /\ window_size = 2
    /\ n_arms = 2
    /\ Len(hist.log) = 3
    /\ \A k \in 1..3 : Observed(hist.log[k][1])
    /\ hist.log[1][1] = One
    /\ ~Observed(hist.log[2][2])
    /\ recent_rewards_sum[1] = Zero
    /\ recent_counts_sum[1] = 2

\* C14: in UCB1 count[i] <= total_time_steps for every arm in every state,
\* so when get_action() computes the confidence bound the argument of the
\* logarithm is >= 1 and every divisor count[i] is >= 1.
C14_UCBArithmeticSafe ==
    IsUCB =>
        /\ \A i \in Arms : RLe(Rat(counts[i]), total_time_steps)
        /\ (Returned("get_action") /\ call.branch = "ucb") =>
              /\ RLe(One, call.logarg)
              /\ \A i \in DOMAIN call.divisors : RLe(One, call.divisors[i])

C14_Witness ==
    /\ IsUCB
    /\ Returned("get_action")
    /\ call.branch = "ucb"
    /\ n_arms >= 2
    /\ hist.updatesDone > Len(hist.log)

\* The exact value of gamma*t + 1, and the order of two values.
ExactStep(t) == Canon(WAdd(WMul(Wide(gamma), Wide(t)), Wide(One)))
DLt(a, b) == WLt(Wide(a), Wide(b))
DLe(a, b) == ~DLt(b, a)

\* For 0 < gamma < 1, t < 1/(1 - gamma) is t*(1 - gamma) < 1, which is
\* t < gamma*t + 1 (and the same with <=).
BelowLimit(t) == DLt(t, ExactStep(t))
AtMostLimit(t) == DLe(t, ExactStep(t))

CounterStep == IsDUCB /\ RLt(Zero, gamma) /\ RLt(gamma, One) /\ call'.op = "update"

C16_WindowNoZeroDivisor ==
    (IsSW /\ initialized) =>
        /\ \A i \in Arms : counts[i] >= 1 => recent_counts_sum[i] >= 1
        /\ (Returned("get_action") /\ call.branch = "ucb") =>
              /\ RLe(One, call.logarg)
              /\ \A i \in DOMAIN call.divisors : RLt(Zero, call.divisors[i])

C16_Witness ==
    /\ IsSW
    /\ Returned("get_action")
    /\ call.branch = "ucb"
    /\ DegenerateArms # {}

\* C17: in the Sliding-Window policy recent_counts_sum[i] never exceeds
\* min(total_time_steps, W).
C17_WindowCountBounded ==
    (IsSW /\ initialized) =>
        \A i \in Arms :
            RLe(Rat(recent_counts_sum[i]), RMin(total_time_steps, Rat(window_size)))

\* C18: in the Discounted policy with gamma in (0, 1] every arm has
\* 0 <= dcount[i] <= total_time_steps and dcount[i] > 0 once its lifetime
\* count is >= 1, so when get_action() computes the confidence bound no
\* divisor is zero and the argument of the logarithm is >= 1.
C18_DiscountedDivisors ==
    (IsDUCB /\ initialized) =>
        /\ \A i \in Arms :
              /\ RLe(Zero, discounted_counts[i])
              /\ RLe(discounted_counts[i], total_time_steps)
              /\ counts[i] >= 1 => RLt(Zero, discounted_counts[i])
        /\ (Returned("get_action") /\ call.branch = "ucb") =>
              /\ RLe(One, call.logarg)
              /\ \A i \in DOMAIN call.divisors : RLt(Zero, call.divisors[i])

C18_Witness ==
    /\ IsDUCB
    /\ gamma = Half
    /\ Returned("get_action")
    /\ call.branch = "ucb"
    /\ \E i \in Arms : RLt(discounted_counts[i], One)
    /\ \E j \in Arms : RLt(One, discounted_counts[j])

\* The reward vectors an update step can have carried: the one it logged, or
\* before initialize (where update raises whatever the vector holds) any.
StepVectors ==
    IF Len(hist'.log) > Len(hist.log) THEN {LastVector'} ELSE UpdateInputs

\* C19: the state an update() leaves depends only on the state before it and
\* on the reward vector: every update step is the step update() takes with
\* any value of its `actions` argument, whatever the get_action() calls
\* before it returned.
C19_ActionIndependent ==
    [][hist'.updateCalls # hist.updateCalls =>
          \A state \in StepVectors :
              \A a \in ActionArgs(Len(state)) : UpdateCall(a, state)]_vars

C19_Witness ==
    /\ Returned("update")
    /\ initialized
    /\ n_arms >= 2
    /\ hist.loop = "select"
    /\ hist.picks[Len(hist.picks)] = 2
    /\ counts[1] >= 1
    /\ counts[2] = 0

====
